---- MODULE Spec2Model ----
(***************************************************************************)
(* Register-transfer model of fib.py: MainMemory, RegisterFile,            *)
(* FibProcessor, InputDebouncer and the top-level wiring of __main__.      *)
(* The registers (Signals driven from m.d.sync) of each object are kept in *)
(* one tuple, and so are the history counters used only to state           *)
(* properties; every register and counter has a name of its own below.     *)
(* One clock edge is one action: all next values are computed from the     *)
(* pre-edge values and committed together.                                 *)
(***************************************************************************)
EXTENDS Integers, Naturals, Sequences, FiniteSets, TLC

VARIABLES
    fib,        \* FibProcessor: <<pc, inst, out, wfi, fsm>>
    memory,     \* MainMemory: <<mem, mem_addr, rd_addr>>
    regs,       \* RegisterFile: <<a, b, do_swap, do_add, do_load>>
    advancer,   \* InputDebouncer: <<db_fsm, db_out, timer, in_raw>>
    top,        \* __main__: <<counter, step, wfi_in>>
    procHist,   \* history of the processor: <<nOut, nWake, stall, jumped>>
    padHist,    \* history of the two pads: lineHist, btnHist, glitchHist, spacingHist
    edgeHist    \* history of SpecEdge: <<edges, prev, prevStep>>

vars == <<fib, memory, regs, advancer, top, procHist, padHist, edgeHist>>

\* FibProcessor registers and FSM state
pc   == fib[1]
inst == fib[2]
out  == fib[3]
wfi  == fib[4]
fsm  == fib[5]

\* MainMemory: contents (the word of address i at position i + 1), addr
\* register, read-port address latch
mem      == memory[1]
mem_addr == memory[2]
rd_addr  == memory[3]

\* RegisterFile registers and control pulses
a       == regs[1]
b       == regs[2]
do_swap == regs[3]
do_add  == regs[4]
do_load == regs[5]

\* InputDebouncer FSM state, out, timer, and the register in_raw that
\* __main__ loads from the button pad
db_fsm == advancer[1]
db_out == advancer[2]
timer  == advancer[3]
in_raw == advancer[4]

\* __main__: divider, and the registers fib.step and fib.wfi_in it drives
counter == top[1]
step    == top[2]
wfi_in  == top[3]

\* history of the processor (see ProcHist)
nOut   == procHist[1]
nWake  == procHist[2]
stall  == procHist[3]
jumped == procHist[4]

\* history of the reset pad and of the button pad: the reset line as sampled
\* at the last edge (1 after power-up), the wake pulses produced since reset,
\* the samples of the button (see ButtonHist), in_raw after a pulse (see
\* GlitchHist), the debouncer's timing (see DwellHist, SpacingHist)
rst     == padHist[1]
nPulse  == padHist[2]
btnLow  == padHist[3]
btnHigh == padHist[4]
phase   == padHist[5]
lowLen  == padHist[6]
lowLate == padHist[7]
since   == padHist[8]
dwell   == padHist[9]
gap     == padHist[10]
lastGap == padHist[11]

btnHist     == <<btnLow, btnHigh>>
glitchHist  == <<phase, lowLen, lowLate, since>>
spacingHist == <<dwell, gap, lastGap>>

\* history of SpecEdge: edges applied, register file before the last one,
\* step at the last edge
edges    == edgeHist[1]
prev     == edgeHist[2]
prevStep == edgeHist[3]

----------------------------------------------------------------------------
(* Width of the timer, and bounds of the model *)

\* Width of the debouncer's timer, Signal(20).
TimerWidth == 20
\* Wake pulses counted before the clock is stopped, where wfi_in is driven freely.
MaxPulses == 13
\* Debouncer pulses counted before the clock is stopped, where the button
\* path is modelled alone, and where it drives the processor.
MaxPresses == 2
MaxTopPresses == 1
\* Edges followed into the debounce_press window of the last counted pulse.
TailEdges == 32
\* Consecutive cycles followed in wait_for_release or wait_for_press.
MaxWait == 2
\* Length of the run of false samples followed after a pulse in SpecGlitch.
MaxLow == 1
\* Clock edges applied from each drawn state in SpecEdge.
MaxEdges == 2
\* Saturation of the history counter of step-asserted edges spent stalled at one WFI.
MaxStall == 3

----------------------------------------------------------------------------
(* Opcodes and program image *)

JUMP == 0
ADD  == 1
SWAP == 2
LOAD == 3
WFI  == 4
OUT  == 5

mem_init == <<LOAD, SWAP, LOAD, OUT, JUMP, 0, 0, 0, WFI, SWAP, ADD, OUT, JUMP>>

\* Memory(width=8, depth=16, init=mem_init): addresses past the image hold 0.
MemReset == [i \in 1..16 |-> IF i <= Len(mem_init) THEN mem_init[i] ELSE 0]

\* The word of address addr in the contents m
WordAt(m, addr) == m[addr + 1]

Bit == {0, 1}
Pow2(n) == 2 ^ n

\* A Signal(32) value is kept as two 16-bit limbs <<low, high>>, so that the
\* 32-bit wraparound of the adder is exact.
Limb == Pow2(16)
Word32(n) == <<n % Limb, n \div Limb>>
\* self.a + self.b truncated to the 32 bits of self.a
Add32(x, y) == <<(x[1] + y[1]) % Limb, (x[2] + y[2] + ((x[1] + y[1]) \div Limb)) % Limb>>
\* x[0:8]
Low8(x) == x[1] % 256

----------------------------------------------------------------------------
(* MainMemory *)

\* self.we and self.dat_w are never driven: they keep their reset value 0.
mem_we    == 0
mem_dat_w == 0

\* rdport.data: synchronous transparent read port, the word at the address
\* latched at the previous edge.
dat_r == WordAt(mem, rd_addr)

\* write port: commits dat_w at addr when we is set.
mem_next == IF mem_we # 0 THEN [mem EXCEPT ![mem_addr + 1] = mem_dat_w] ELSE mem

\* read port address latch (rdport.addr is wired to self.addr).
rd_addr_next == mem_addr

----------------------------------------------------------------------------
(* RegisterFile.elaborate: swap > add > load *)

\* Mutant of a_next: add is tested before swap.
a_next_add_first ==
    IF do_add # 0 THEN Add32(a, b)
    ELSE IF do_swap # 0 THEN b
    ELSE IF do_load # 0 THEN Word32(1)
    ELSE a

a_next ==
    IF do_swap # 0 THEN b
    ELSE IF do_add # 0 THEN Add32(a, b)
    ELSE IF do_load # 0 THEN Word32(1)
    ELSE a

\* Mutant of b_next: the swap done in two steps, so that b reads the a
\* already overwritten.
b_next_sequential == IF do_swap # 0 THEN a_next ELSE b

b_next == IF do_swap # 0 THEN a ELSE b

----------------------------------------------------------------------------
(* FibProcessor.elaborate *)

\* self.inst[0:3]
Opcode(i) == i % 8

Fetching == step # 0 /\ fsm = "fetching"
Decoding(op) == step # 0 /\ fsm = "decoding" /\ Opcode(inst) = op
\* WFI decoded with the wake latch set
Consume == Decoding(WFI) /\ wfi # 0

mem_addr_next == pc

\* Mutant of fsm_next: the WFI case leaves decoding without looking at the latch.
fsm_next_nowait ==
    IF step # 0 THEN
        CASE fsm = "fetching" -> "decoding"
          [] fsm = "decoding" ->
                CASE Opcode(inst) = JUMP -> "moving_pc"
                  [] Opcode(inst) \in {ADD, SWAP, LOAD, WFI, OUT} -> "fetching"
                  [] OTHER -> "decoding"
          [] fsm = "moving_pc" -> "fetching"
    ELSE fsm

\* Mutant of fsm_next: the moving_pc bubble is never left.
fsm_next_stuck ==
    IF step # 0 THEN
        CASE fsm = "fetching" -> "decoding"
          [] fsm = "decoding" ->
                CASE Opcode(inst) = JUMP -> "moving_pc"
                  [] Opcode(inst) \in {ADD, SWAP, LOAD, OUT} -> "fetching"
                  [] Opcode(inst) = WFI -> IF wfi # 0 THEN "fetching" ELSE "decoding"
                  [] OTHER -> "decoding"
          [] fsm = "moving_pc" -> "moving_pc"
    ELSE fsm

\* Mutant of fsm_next: JUMP goes straight back to fetching, without the
\* moving_pc cycle.
fsm_next_nobubble ==
    IF step # 0 THEN
        CASE fsm = "fetching" -> "decoding"
          [] fsm = "decoding" ->
                CASE Opcode(inst) \in {JUMP, ADD, SWAP, LOAD, OUT} -> "fetching"
                  [] Opcode(inst) = WFI -> IF wfi # 0 THEN "fetching" ELSE "decoding"
                  [] OTHER -> "decoding"
          [] fsm = "moving_pc" -> "fetching"
    ELSE fsm

fsm_next ==
    IF step # 0 THEN
        CASE fsm = "fetching" -> "decoding"
          [] fsm = "decoding" ->
                CASE Opcode(inst) = JUMP -> "moving_pc"
                  [] Opcode(inst) = ADD  -> "fetching"
                  [] Opcode(inst) = SWAP -> "fetching"
                  [] Opcode(inst) = LOAD -> "fetching"
                  [] Opcode(inst) = WFI  -> IF wfi # 0 THEN "fetching" ELSE "decoding"
                  [] Opcode(inst) = OUT  -> "fetching"
                  [] OTHER -> "decoding"
          [] fsm = "moving_pc" -> "fetching"
    ELSE fsm

inst_next == IF Fetching THEN dat_r ELSE inst

\* Mutant of pc_next: JUMP takes its target from the word the memory presents.
pc_next_operand ==
    IF Fetching THEN (pc + 1) % 16
    ELSE IF Decoding(JUMP) THEN dat_r % 16
    ELSE pc

\* Mutant of pc_next: the JUMP case leaves pc alone.
pc_next_nojump ==
    IF Fetching THEN (pc + 1) % 16
    ELSE pc

pc_next ==
    IF Fetching THEN (pc + 1) % 16
    ELSE IF Decoding(JUMP) THEN 8
    ELSE pc

\* Mutant of do_add_next: the clear of the pulse is gated by step like the FSM.
do_add_next_gated == IF step # 0 THEN (IF Decoding(ADD) THEN 1 ELSE 0) ELSE do_add

\* Mutant of do_swap_next: the strobe is only cleared on a step-asserted edge.
do_swap_next_gated == IF step # 0 THEN (IF Decoding(SWAP) THEN 1 ELSE 0) ELSE do_swap

do_add_next  == IF Decoding(ADD)  THEN 1 ELSE 0
do_swap_next == IF Decoding(SWAP) THEN 1 ELSE 0

\* Mutant of do_load_next: the load strobe is also raised by the ADD case.
do_load_next_sloppy == IF Decoding(LOAD) \/ Decoding(ADD) THEN 1 ELSE 0

do_load_next == IF Decoding(LOAD) THEN 1 ELSE 0

\* Mutant of wfi_next: the wake input is registered but not held.
wfi_next_nohold == IF Consume THEN 0 ELSE wfi_in

\* Mux(self.wfi, 1, self.wfi_in), overridden by the clear in the WFI case
wfi_next ==
    IF Consume THEN 0
    ELSE IF wfi # 0 THEN 1 ELSE wfi_in

\* Mutant of out_next: the OUT case is not gated by step.
out_next_ungated == IF fsm = "decoding" /\ Opcode(inst) = OUT THEN Low8(a) ELSE out

\* self.regs.a[0:8]
out_next == IF Decoding(OUT) THEN Low8(a) ELSE out

----------------------------------------------------------------------------
(* InputDebouncer.elaborate *)

\* The two states in which the timer runs and in_raw is not read
Debouncing == {"debounce_release", "debounce_press"}

\* Mutant of db_fsm_next: a press starts no window, the next press is
\* awaited at once.
db_fsm_next_nowindow ==
    CASE db_fsm = "wait_for_release" ->
            IF in_raw = 0 THEN "debounce_release" ELSE "wait_for_release"
      [] db_fsm = "debounce_release" ->
            IF timer = 0 THEN "wait_for_press" ELSE "debounce_release"
      [] db_fsm = "wait_for_press" -> "wait_for_press"
      [] db_fsm = "debounce_press" ->
            IF timer = 0 THEN "wait_for_release" ELSE "debounce_press"

\* Mutant of db_fsm_next: the press window is cut short by a false sample.
db_fsm_next_unblanked ==
    CASE db_fsm = "wait_for_release" ->
            IF in_raw = 0 THEN "debounce_release" ELSE "wait_for_release"
      [] db_fsm = "debounce_release" ->
            IF timer = 0 THEN "wait_for_press" ELSE "debounce_release"
      [] db_fsm = "wait_for_press" ->
            IF in_raw # 0 THEN "debounce_press" ELSE "wait_for_press"
      [] db_fsm = "debounce_press" ->
            IF timer = 0 \/ in_raw = 0 THEN "wait_for_release" ELSE "debounce_press"

db_fsm_next ==
    CASE db_fsm = "wait_for_release" ->
            IF in_raw = 0 THEN "debounce_release" ELSE "wait_for_release"
      [] db_fsm = "debounce_release" ->
            IF timer = 0 THEN "wait_for_press" ELSE "debounce_release"
      [] db_fsm = "wait_for_press" ->
            IF in_raw # 0 THEN "debounce_press" ELSE "wait_for_press"
      [] db_fsm = "debounce_press" ->
            IF timer = 0 THEN "wait_for_release" ELSE "debounce_press"

\* Mutant of timer_next: a window starts the timer one count late.
timer_next_late ==
    CASE db_fsm = "wait_for_release" -> IF in_raw = 0 THEN 2 ELSE timer
      [] db_fsm = "debounce_release" -> (timer + 1) % Pow2(TimerWidth)
      [] db_fsm = "wait_for_press"   -> IF in_raw # 0 THEN 2 ELSE timer
      [] db_fsm = "debounce_press"   -> (timer + 1) % Pow2(TimerWidth)

timer_next ==
    CASE db_fsm = "wait_for_release" -> IF in_raw = 0 THEN 1 ELSE timer
      [] db_fsm = "debounce_release" -> (timer + 1) % Pow2(TimerWidth)
      [] db_fsm = "wait_for_press"   -> IF in_raw # 0 THEN 1 ELSE timer
      [] db_fsm = "debounce_press"   -> (timer + 1) % Pow2(TimerWidth)

\* Mutant of db_out_next: out is raised on leaving either wait state.
db_out_next_both ==
    IF (db_fsm = "wait_for_press" /\ in_raw # 0) \/ (db_fsm = "wait_for_release" /\ in_raw = 0)
    THEN 1 ELSE 0

db_out_next == IF db_fsm = "wait_for_press" /\ in_raw # 0 THEN 1 ELSE 0

----------------------------------------------------------------------------
(* __main__: divider and wiring *)

counter_next == (counter + 1) % 2
step_next    == counter
wfi_in_next  == db_out

----------------------------------------------------------------------------
(* History variables: they record what happened, and drive nothing *)

Min(x, y) == IF x < y THEN x ELSE y

\* The debouncer asserts out at this edge.
PulseEdge == db_out_next = 1

\* nOut: OUT executions so far.  nWake: wakes consumed since the last OUT.
\* stall: step-asserted edges spent at the current WFI with the latch clear.
\* jumped: a JUMP was decoded and no fetch has followed it yet.
ProcHist ==
    << IF Decoding(OUT) THEN nOut + 1 ELSE nOut,
       IF Decoding(OUT) THEN 0 ELSE IF Consume THEN nWake + 1 ELSE nWake,
       IF fsm = "decoding" /\ Opcode(inst) = WFI
       THEN (IF step # 0 /\ wfi = 0 THEN Min(stall + 1, MaxStall) ELSE stall)
       ELSE 0,
       IF Decoding(JUMP) THEN TRUE ELSE IF Fetching THEN FALSE ELSE jumped >>

\* rst, nPulse after an edge taken with the reset line released; pulse is 1
\* when the edge produces a wake pulse.
LineHist(pulse) == <<0, nPulse + pulse>>

\* btnLow: the pad was sampled false at an edge since reset or since the last
\* pulse edge.  btnHigh: after that, it was sampled true.
ButtonHist(button) ==
    << IF PulseEdge THEN button = 0 ELSE (btnLow \/ button = 0),
       IF PulseEdge THEN FALSE ELSE (btnHigh \/ (btnLow /\ button # 0)) >>

\* since: edges taken since the last pulse edge (saturating past the window);
\* the value in_raw holds in a cycle is read by the FSM at the edge that ends
\* the cycle, and in the 2^TimerWidth cycles since = 0 .. 2^TimerWidth - 1
\* that edge is taken in debounce_press.
\* phase: what in_raw has held in the cycles since the pulse edge, the one
\* after this edge included: "held" true in all of them; "low" true and then
\* a run of false values, shorter than the timer period so far; "after" true
\* again after that run, and ever since; "idle" otherwise, and before the
\* first pulse.  lowLen: length of the run.  lowLate: a value of the run is
\* read at an edge past the press window.
GlitchHist(button) ==
    << IF PulseEdge THEN (IF button # 0 THEN "held" ELSE "low")
       ELSE CASE phase = "idle" -> "idle"
              [] phase = "held" -> IF button # 0 THEN "held" ELSE "low"
              [] phase = "low" ->
                    IF button # 0 THEN "after"
                    ELSE IF lowLen + 1 >= Pow2(TimerWidth) THEN "idle" ELSE "low"
              [] phase = "after" -> IF button # 0 THEN "after" ELSE "idle",
       IF PulseEdge THEN (IF button # 0 THEN 0 ELSE 1)
       ELSE IF phase \in {"held", "low"} /\ button = 0 THEN lowLen + 1 ELSE lowLen,
       IF PulseEdge THEN FALSE
       ELSE IF phase \in {"held", "low"} /\ button = 0
            THEN (lowLate \/ since + 1 >= Pow2(TimerWidth)) ELSE lowLate,
       IF PulseEdge THEN 0 ELSE Min(since + 1, Pow2(TimerWidth) + 1) >>

\* dwell: cycles the debouncer has spent in its present state, this one
\* included.  gap: cycles since out was last 1 (0 while it is 1).  lastGap:
\* the distance in cycles between the last two cycles with out at 1.  All
\* three saturate at GapCap, one more than the spacing that is to be measured.
GapCap == 2 * Pow2(TimerWidth) + 3

DwellHist == IF db_fsm_next = db_fsm THEN Min(dwell + 1, GapCap) ELSE 1

SpacingHist ==
    << IF PulseEdge THEN 0 ELSE Min(gap + 1, GapCap),
       IF PulseEdge THEN Min(gap + 1, GapCap) ELSE lastGap >>

----------------------------------------------------------------------------
(* Reset state *)

ProcReset == fib = <<0, 0, 0, 0, "fetching">> /\ memory = <<MemReset, 0, 0>>

RegsReset == regs = <<Word32(0), Word32(0), 0, 0, 0>>

DebReset == advancer = <<"wait_for_release", 0, 0, 0>>

\* counter, fib.step and fib.wfi_in at 0
TopReset == top = <<0, 0, 0>>

\* Nothing observed yet, the reset line asserted
HistReset ==
    /\ procHist = <<0, 0, 0, FALSE>>
    /\ padHist = <<1, 0, FALSE, FALSE, "idle", 0, FALSE, 0, 1, GapCap, 0>>
    /\ edgeHist = <<0, <<>>, 0>>

Init == ProcReset /\ RegsReset /\ DebReset /\ TopReset /\ HistReset

----------------------------------------------------------------------------
(* One clock edge of each component *)

ProcEdge ==
    /\ fib' = <<pc_next, inst_next, out_next, wfi_next, fsm_next>>
    /\ memory' = <<mem_next, mem_addr_next, rd_addr_next>>

RegsEdge == regs' = <<a_next, b_next, do_swap_next, do_add_next, do_load_next>>

\* button is the pad value that __main__ loads into in_raw at this edge.
DebEdge(button) == advancer' = <<db_fsm_next, db_out_next, timer_next, button>>

----------------------------------------------------------------------------
(* The reset line and the bounds of the runs *)

\* An edge taken with the reset line asserted (platform.default_rst): every
\* register and both FSMs take their reset values, whatever the state.  The
\* contents of the memory are no registers and stay; the histories start anew.
Reset ==
    /\ fib' = <<0, 0, 0, 0, "fetching">>
    /\ memory' = <<mem, 0, 0>>
    /\ regs' = <<Word32(0), Word32(0), 0, 0, 0>>
    /\ advancer' = <<"wait_for_release", 0, 0, 0>>
    /\ top' = <<0, 0, 0>>
    /\ procHist' = <<0, 0, 0, FALSE>>
    /\ padHist' = <<1, 0, FALSE, FALSE, "idle", 0, FALSE, 0, 1, GapCap, 0>>
    /\ edgeHist' = <<0, <<>>, 0>>

\* The edge that led to the next state was taken with the reset line released.
ClockEdge == rst' = 0

\* The clock is stopped before pulse n + 1, and TailEdges edges into the
\* window of pulse n.
PressBound(n) ==
    /\ nPulse + db_out_next <= n
    /\ ~(nPulse >= n /\ db_fsm = "debounce_press" /\ timer > TailEdges)

\* The button path alone is followed through MaxPresses pulses.
RunBound == PressBound(MaxPresses)

\* A wait state is followed for MaxWait consecutive cycles.
WaitBound == (db_fsm \notin Debouncing /\ db_fsm_next = db_fsm) => dwell < MaxWait

----------------------------------------------------------------------------
(* Spec: the whole design of __main__ *)

\* One edge of the whole design; button is the pad value sampled at this edge.
Tick(button) ==
    /\ ProcEdge /\ RegsEdge /\ DebEdge(button)
    /\ top' = <<counter_next, step_next, wfi_in_next>>
    /\ procHist' = ProcHist
    /\ padHist' = LineHist(db_out_next) \o btnHist \o glitchHist \o spacingHist
    /\ UNCHANGED edgeHist

\* The whole design is followed through MaxTopPresses pulses.
Run(button) == PressBound(MaxTopPresses) /\ Tick(button)

Next == (\E button \in Bit : Run(button)) \/ Reset

Spec == Init /\ [][Next]_vars

----------------------------------------------------------------------------
(* SpecDeb: the button path alone, the pad register and the InputDebouncer, *)
(* with the history of its timing                                           *)

DebTick(button) ==
    /\ DebEdge(button)
    /\ padHist' = LineHist(db_out_next) \o btnHist \o glitchHist \o <<DwellHist>> \o SpacingHist
    /\ UNCHANGED <<fib, memory, regs, top, procHist, edgeHist>>

DebRun(button) == RunBound /\ WaitBound /\ DebTick(button)

NextDeb == (\E button \in Bit : DebRun(button)) \/ Reset

SpecDeb == Init /\ [][NextDeb]_vars

----------------------------------------------------------------------------
(* SpecPress: the button path alone up to its first pulse, with the         *)
(* history of the pad                                                       *)

PressTick(button) ==
    /\ DebEdge(button)
    /\ padHist' = LineHist(db_out_next) \o ButtonHist(button) \o glitchHist \o spacingHist
    /\ UNCHANGED <<fib, memory, regs, top, procHist, edgeHist>>

\* The clock is stopped after the first pulse edge.
PressRun(button) == nPulse = 0 /\ PressTick(button)

NextPress == (\E button \in Bit : PressRun(button)) \/ Reset

SpecPress == Init /\ [][NextPress]_vars

----------------------------------------------------------------------------
(* SpecGlitch: the button path alone, with the history of the values of    *)
(* in_raw that follow a pulse; after a pulse in_raw is followed while it   *)
(* is true, through one run of up to MaxLow false values, and while it is  *)
(* true after that                                                         *)

GlitchBound == nPulse >= 1 => phase # "idle" /\ lowLen <= MaxLow

GlitchTick(button) ==
    /\ DebEdge(button)
    /\ padHist' = LineHist(db_out_next) \o btnHist \o GlitchHist(button) \o <<DwellHist, gap, lastGap>>
    /\ UNCHANGED <<fib, memory, regs, top, procHist, edgeHist>>

GlitchRun(button) == RunBound /\ WaitBound /\ GlitchBound /\ GlitchTick(button)

NextGlitch == (\E button \in Bit : GlitchRun(button)) \/ Reset

SpecGlitch == Init /\ [][NextGlitch]_vars

----------------------------------------------------------------------------
(* SpecWake: FibProcessor, RegisterFile and the divider, with the wake input *)
(* wfi_in driven freely.  The processor sees the debouncer through wfi_in    *)
(* alone, so these runs include every run of the processor in Spec.          *)

WakeTick(wake) ==
    /\ nPulse + wake <= MaxPulses
    /\ ProcEdge /\ RegsEdge
    /\ top' = <<counter_next, step_next, wake>>
    /\ procHist' = ProcHist
    /\ padHist' = LineHist(wake) \o btnHist \o glitchHist \o spacingHist
    /\ UNCHANGED <<advancer, edgeHist>>

NextWake == (\E wake \in Bit : WakeTick(wake)) \/ Reset

SpecWake == Init /\ [][NextWake]_vars

\* The processor under the divider with the clock ticking forever and the
\* reset line released.  No wake is driven once MaxPulses of them were, so
\* that no edge is held back by the bound and the edge is always enabled.
LiveTick(wake) ==
    /\ (nPulse >= MaxPulses => wake = 0)
    /\ WakeTick(wake)

NextLive == \E wake \in Bit : LiveTick(wake)

SpecLive == Init /\ [][NextLive]_vars /\ WF_vars(NextLive)

----------------------------------------------------------------------------
(* SpecJump: as SpecWake, over program images that differ from the built-in *)
(* one only in the upper five bits of the two JUMP words and in the three    *)
(* words that follow each of them                                            *)

JumpWords    == {JUMP, JUMP + 8, JUMP + 248}
OperandWords == {0, 11, 255}

ImageVariant(j, o) ==
    [i \in 1..16 |-> IF i - 1 \in {4, 12} THEN j
                     ELSE IF i - 1 \in {5, 6, 7, 13, 14, 15} THEN o
                     ELSE MemReset[i]]

InitJump ==
    /\ fib = <<0, 0, 0, 0, "fetching">>
    /\ memory \in {<<ImageVariant(j, o), 0, 0>> : j \in JumpWords, o \in OperandWords}
    /\ RegsReset /\ DebReset /\ TopReset /\ HistReset

SpecJump == InitJump /\ [][NextWake]_vars

----------------------------------------------------------------------------
(* SpecReserved: as SpecWake, from reset, over program images that differ   *)
(* from the built-in one in one word of the straight-line code, which holds *)
(* a reserved opcode                                                         *)

ReservedWords == {6, 7, 255}
ReservedAt    == {0, 1, 2, 3, 8, 9, 10, 11}

ImageReserved(k, w) == [i \in 1..16 |-> IF i - 1 = k THEN w ELSE MemReset[i]]

InitReserved ==
    /\ fib = <<0, 0, 0, 0, "fetching">>
    /\ memory \in {<<ImageReserved(k, w), 0, 0>> : k \in ReservedAt, w \in ReservedWords}
    /\ RegsReset /\ DebReset /\ TopReset /\ HistReset

SpecReserved == InitReserved /\ [][NextWake]_vars

----------------------------------------------------------------------------
(* SpecEdge: the edge functions of RegisterFile and FibProcessor applied to  *)
(* drawn register values, with step and wfi_in driven freely                 *)

RegSamples ==
    {Word32(0), Word32(1), Word32(3), Word32(4), Word32(5), Word32(9),
     <<65535, 0>>, <<0, 32768>>, <<65535, 65535>>}
InstSamples == (0..7) \cup {JUMP + 248, WFI + 8, OUT + 248, 255}
States == {"fetching", "decoding", "moving_pc"}

\* a register file in any state, under a processor at reset
InitEdgeRegs ==
    /\ regs \in {<<x, y, s, d, l>> : x \in RegSamples, y \in RegSamples,
                                    s \in Bit, d \in Bit, l \in Bit}
    /\ fib = <<0, 0, 0, 0, "fetching">>

\* a processor in any state, over an idle register file
InitEdgeProc ==
    /\ fib \in {<<p, i, 77, w, f>> : p \in {0, 15}, i \in InstSamples,
                                    w \in Bit, f \in States}
    /\ regs \in {<<x, Word32(0), 0, 0, 0>> : x \in {Word32(0), Word32(377), <<65535, 65535>>}}

InitEdge ==
    /\ top \in {<<0, s, w>> : s \in Bit, w \in Bit}
    /\ (InitEdgeRegs \/ InitEdgeProc)
    /\ memory = <<MemReset, 0, 0>>
    /\ DebReset /\ HistReset

EdgeTick(s, w) ==
    /\ edges < MaxEdges
    /\ ProcEdge /\ RegsEdge
    /\ top' = <<counter, s, w>>
    /\ procHist' = ProcHist
    /\ padHist' = LineHist(0) \o btnHist \o glitchHist \o spacingHist
    /\ edgeHist' = <<edges + 1, regs, step>>
    /\ UNCHANGED advancer

NextEdge == (\E s \in Bit, w \in Bit : EdgeTick(s, w)) \/ Reset

SpecEdge == InitEdge /\ [][NextEdge]_vars

----------------------------------------------------------------------------
(* Properties *)
(* A property of one edge is stated for the edges taken with the reset line *)
(* released (ClockEdge); the edge taken with it asserted is Reset, after    *)
(* which the histories count anew.                                          *)

\* The Fibonacci numbers F(1) = F(2) = 1, F(n+2) = F(n+1) + F(n).
RECURSIVE FibFrom(_, _, _)
FibFrom(n, x, y) == IF n <= 1 THEN x ELSE FibFrom(n - 1, y, x + y)
F(n) == FibFrom(n, 1, 1)

\* C1: started from reset with the built-in image, the k-th execution of OUT
\* latches out = F(k+1) mod 256 (1, 2, 3, 5, 8, 13, ...), whatever the wake
\* input does, and so whatever the button does behind the debouncer; before
\* the first OUT, out is its reset value 0.
C1_FibonacciOut == out = (IF nOut = 0 THEN 0 ELSE F(nOut + 1) % 256)

\* C1 witness: the 13th OUT has latched F(14) = 377, of which the low 8 bits are 121.
C1_Witness == nOut = 13 /\ out = 121 /\ a = Word32(377)

\* C2: the output advances only on button pulses: every OUT after the first is
\* preceded by exactly one wake consumption since the previous OUT, and the
\* number of OUT executions never exceeds 1 + the number of debouncer pulses.
C2_OutPerPulse ==
    /\ nOut <= 1 + nPulse
    /\ nWake <= 1
    /\ (Decoding(OUT) => nWake = (IF nOut = 0 THEN 0 ELSE 1))

\* C2 witness: the second OUT is about to execute after exactly one pulse of
\* the debouncer, one wake having been consumed since the first OUT.
C2_Witness == Decoding(OUT) /\ nOut = 1 /\ nPulse = 1 /\ nWake = 1

\* C3: WFI gating.  While the FSM is in decoding with opcode WFI and the wake
\* latch is 0, every edge (step-asserted or not) leaves it in decoding with pc,
\* inst, out, a and b unchanged; on a step-asserted edge with the latch at 1
\* the FSM moves to fetching and the latch is cleared.
C3_WfiGating ==
    [][ ClockEdge =>
        ((fsm = "decoding" /\ Opcode(inst) = WFI) =>
          IF step # 0 /\ wfi # 0
          THEN fsm' = "fetching" /\ wfi' = 0
          ELSE /\ fsm' = "decoding" /\ pc' = pc /\ inst' = inst
               /\ out' = out /\ a' = a /\ b' = b ) ]_vars

\* C3 witness: the processor has stalled at a WFI for MaxStall step-asserted
\* edges, the latch has then been set, and this edge releases it.
C3_Witness == Consume /\ stall = MaxStall /\ nOut >= 2

\* C4 as claimed: every cycle in which wfi_in is high results in the wake
\* latch being set, also on the edge at which a latched wake is consumed.
C4_EveryWakeLatched == [][ ClockEdge => (wfi_in # 0 => wfi' = 1) ]_vars

\* C4 as amended: the clear wins.  On the edge that consumes the latch (step
\* asserted, decoding, opcode WFI, latch set) the latch becomes 0 even if
\* wfi_in is high, and that pulse is dropped; on every other edge the latch
\* becomes 1 if it was 1 or wfi_in is high, and stays 0 otherwise.
C4_WakeLatch ==
    [][ ClockEdge =>
        /\ (Consume => wfi' = 0)
        /\ (~Consume /\ (wfi # 0 \/ wfi_in # 0) => wfi' = 1)
        /\ (~Consume /\ wfi = 0 /\ wfi_in = 0 => wfi' = 0)  ]_vars

\* C4 witness: a wake pulse is at the input on the very edge that consumes
\* an earlier latched wake.
C4_Witness == Consume /\ wfi_in # 0

\* C5 as claimed: after a pulse, with in_raw held true, a single run of false
\* samples shorter than the timer period followed by in_raw true for good
\* never leads to another pulse.
C5_GlitchNoPulse == ~(PulseEdge /\ phase = "after")

\* C5 as amended: such a glitch leads to no further pulse when all its false
\* samples fall within the 2^TimerWidth edges that follow the pulse edge:
\* those edges are all taken in debounce_press, whatever in_raw is, and none
\* of them raises out.
C5_GlitchInWindow ==
    [][ ClockEdge =>
        /\ ~(PulseEdge /\ phase = "after" /\ ~lowLate)
        /\ (nPulse >= 1 /\ since < Pow2(TimerWidth) =>
               db_fsm = "debounce_press" /\ db_out' = 0) ]_vars

\* C5 witness: a glitch has come and gone inside the window, the window is
\* over and the FSM is still waiting for a release.
C5_Witness ==
    /\ phase = "after" /\ ~lowLate /\ lowLen >= 1
    /\ db_fsm = "wait_for_release" /\ in_raw # 0 /\ since > Pow2(TimerWidth)

\* C6: out is 1 after an edge only if that edge was taken in wait_for_press
\* with in_raw true; it is never 1 in two consecutive cycles, and it is 0
\* after every edge taken in one of the three other states.
C6_OneCyclePulse ==
    [][ ClockEdge =>
        /\ (db_out' = 1 => db_fsm = "wait_for_press" /\ in_raw # 0)
        /\ (db_out = 1 => db_out' = 0)
        /\ (db_fsm \in {"wait_for_release", "debounce_release", "debounce_press"}
               => db_out' = 0)  ]_vars

\* C6 witness: the first pulse is on out, one cycle after its press edge.
C6_Witness == db_out = 1 /\ db_fsm = "debounce_press" /\ timer = 1 /\ nPulse = 1

\* C7 as claimed: the debouncer asserts out only after the button pad has
\* been sampled false and afterwards true since reset or since the previous
\* pulse, so a pad held true from reset never yields a pulse.
C7_PressAfterRelease == PulseEdge => btnHigh

\* C8: the RegisterFile edge function.  With swap asserted a and b exchange
\* their pre-edge values; else with add asserted a becomes (a + b) mod 2^32
\* and b holds; else with load asserted a becomes 1 and b holds; else both
\* hold.  Several controls together give the result of the highest-priority
\* one alone.  The anchors are 5, 9 swapped, 3 + 4 = 7 and (2^32 - 1) + 1 = 0.
C8_RegisterFile ==
    [][ ClockEdge =>
        /\ (do_swap # 0 => a' = b /\ b' = a)
        /\ (do_swap = 0 /\ do_add # 0 =>
               /\ a'[1] = (a[1] + b[1]) % 65536
               /\ a'[2] = (a[2] + b[2] + (IF a[1] + b[1] >= 65536 THEN 1 ELSE 0)) % 65536
               /\ b' = b)
        /\ (do_swap = 0 /\ do_add = 0 /\ do_load # 0 => a' = <<1, 0>> /\ b' = b)
        /\ (do_swap = 0 /\ do_add = 0 /\ do_load = 0 => a' = a /\ b' = b)
        /\ (do_swap # 0 /\ a = <<5, 0>> /\ b = <<9, 0>> => a' = <<9, 0>> /\ b' = <<5, 0>>)
        /\ (do_swap = 0 /\ do_add # 0 /\ a = <<3, 0>> /\ b = <<4, 0>> => a' = <<7, 0>>)
        /\ (do_swap = 0 /\ do_add # 0 /\ a = <<65535, 65535>> /\ b = <<1, 0>>
               => a' = <<0, 0>>)  ]_vars

\* C8 witness: with all three controls asserted over a = 5, b = 9 the edge
\* has swapped them, and nothing else.
C8_Witness ==
    /\ edges = 1 /\ prev = <<Word32(5), Word32(9), 1, 1, 1>>
    /\ a = Word32(9) /\ b = Word32(5)

\* C9: jump target invariance.  A step-asserted edge in decoding with opcode
\* JUMP sets pc to 8 and moves to moving_pc, whatever the upper bits of inst
\* and the words after the JUMP; the next step-asserted edge moves moving_pc
\* to fetching and keeps pc; the fetch that follows is taken at pc = 8 and
\* latches the word at address 8.
C9_JumpTarget ==
    [][ ClockEdge =>
        /\ (Decoding(JUMP) => pc' = 8 /\ fsm' = "moving_pc")
        /\ (step # 0 /\ fsm = "moving_pc" => fsm' = "fetching" /\ pc' = pc)
        /\ (Fetching /\ jumped => pc = 8 /\ inst' = WordAt(mem, 8))  ]_vars

\* C9 witness: in an image whose JUMP words carry upper bits and whose
\* operand words are not 0, the WFI at address 8 has just been fetched
\* after the JUMP that closes the second iteration of the loop.
C9_Witness ==
    /\ WordAt(mem, 12) = JUMP + 248 /\ WordAt(mem, 13) = 255
    /\ nOut = 2 /\ ~jumped /\ fsm = "decoding" /\ pc = 9 /\ inst = WFI

\* C10: out changes only on a step-asserted edge in decoding with opcode
\* OUT, where it takes the low 8 bits of the pre-edge a; every other edge
\* leaves it as it is.
C10_OutLatch ==
    [][ ClockEdge =>
        (out' = IF step # 0 /\ fsm = "decoding" /\ inst % 8 = OUT
               THEN a[1] % 256 ELSE out ) ]_vars

\* C10 witness: OUT has latched 121, the low 8 bits of a = 377, over the
\* earlier value 77.
C10_Witness == edges = 1 /\ out = 121 /\ a = Word32(377) /\ fsm = "fetching"


\* C11: under the divider of __main__, every step-asserted edge taken in fetching
\* latches into inst the program-image word at the pre-edge pc, increments
\* pc modulo 16 and moves to decoding: the address register and the
\* registered read port have caught up with pc by the time of the fetch,
\* in sequence, after a JUMP and after a WFI stall.
C11_FetchAtPc ==
    [][ ClockEdge =>
        (Fetching => /\ inst' = WordAt(MemReset, pc)
                    /\ pc' = (pc + 1) % 16
                    /\ fsm' = "decoding" ) ]_vars

\* C11 witness: the WFI at address 8 has been fetched after the JUMP that
\* closes the third pass, and the read port still shows address 8.
C11_Witness ==
    /\ fsm = "decoding" /\ inst = WFI /\ pc = 9 /\ rd_addr = 8
    /\ step = 0 /\ nOut = 3


\* C12 as claimed: on every edge at which step is low the FSM state, pc,
\* inst, out, the wake latch, the three control pulses and the registers a
\* and b keep their pre-edge values.
C12_ClockGated ==
    [][ ClockEdge =>
        (step = 0 => UNCHANGED <<fsm, pc, inst, out, wfi,
                                do_swap, do_add, do_load, a, b>> ) ]_vars

\* C12 as amended: on an edge at which step is low the FSM state, pc, inst
\* and out keep their values; the wake latch still takes wfi_in, the three
\* control pulses are cleared, and the register file applies the pulse that
\* is asserted, so a and b change on the step-low edge after a decoded SWAP,
\* ADD or LOAD.
C12_StepLowEdge ==
    [][ ClockEdge =>
        (step = 0 =>
          /\ fsm' = fsm /\ pc' = pc /\ inst' = inst /\ out' = out
          /\ wfi' = (IF wfi # 0 \/ wfi_in # 0 THEN 1 ELSE 0)
          /\ do_swap' = 0 /\ do_add' = 0 /\ do_load' = 0
          /\ (do_swap # 0 => a' = b /\ b' = a)
          /\ (do_swap = 0 => b' = b)
          /\ (do_swap = 0 /\ do_add # 0 => a' = Add32(a, b))
          /\ (do_swap = 0 /\ do_add = 0 /\ do_load # 0 => a' = Word32(1))
          /\ (do_swap = 0 /\ do_add = 0 /\ do_load = 0 => a' = a) ) ]_vars

\* C12 witness: the step-low edge after the ADD of the third pass has
\* cleared do_add and made a = 2 + 1.
C12_Witness ==
    /\ step = 1 /\ fsm = "fetching" /\ pc = 11 /\ nOut = 2
    /\ do_add = 0 /\ a = Word32(3) /\ b = Word32(2)


\* The two opcode values without a case in the decoder.
Reserved == {6, 7}

C14_WindowLength ==
    [][ ClockEdge =>
        /\ (db_fsm \notin Debouncing /\ db_fsm' \in Debouncing => timer' = 1)
        /\ (db_fsm \in Debouncing =>
               /\ dwell <= Pow2(TimerWidth)
               /\ (timer = 0 <=> dwell = Pow2(TimerWidth))
               /\ (dwell < Pow2(TimerWidth) => db_fsm' = db_fsm)
               /\ (dwell = Pow2(TimerWidth) =>
                      db_fsm' = IF db_fsm = "debounce_release"
                                THEN "wait_for_press" ELSE "wait_for_release"))  ]_vars

\* C14 witness: the last cycle of the press window of the first pulse, the
\* 2^TimerWidth-th, with the timer wrapped to 0 and in_raw false and ignored.
C14_Witness ==
    /\ db_fsm = "debounce_press" /\ dwell = Pow2(TimerWidth) /\ timer = 0
    /\ in_raw = 0 /\ nPulse = 1


\* C15: in every reachable state at most one of do_swap, do_add, do_load is 1.
C15_OneHotControl ==
    /\ do_swap \in Bit /\ do_add \in Bit /\ do_load \in Bit
    /\ do_swap + do_add + do_load <= 1

\* C15 witness: the cycle after the ADD of the loop was decoded, do_add alone
\* is high.
C15_Witness ==
    /\ do_add = 1 /\ do_swap = 0 /\ do_load = 0
    /\ fsm = "fetching" /\ pc = 11 /\ nOut = 2


\* C16: a control strobe that is 1 in a cycle is 0 in the next one; a strobe
\* is raised exactly by the step-asserted edge that decodes its instruction,
\* which also leaves decoding; the register file changes only on the edge
\* ending a strobe cycle, where it applies the update of that strobe, and
\* that edge has step = 0, so it comes before the next step-asserted edge.
C16_OneCycleStrobe ==
    [][ ClockEdge =>
        /\ (do_swap # 0 => do_swap' = 0 /\ step = 0 /\ a' = b /\ b' = a)
        /\ (do_add # 0 => do_add' = 0 /\ step = 0 /\ a' = Add32(a, b) /\ b' = b)
        /\ (do_load # 0 => do_load' = 0 /\ step = 0 /\ a' = Word32(1) /\ b' = b)
        /\ (do_swap = 0 /\ do_add = 0 /\ do_load = 0 => a' = a /\ b' = b)
        /\ (do_swap' # 0 <=> Decoding(SWAP))
        /\ (do_add' # 0 <=> Decoding(ADD))
        /\ (do_load' # 0 <=> Decoding(LOAD))
        /\ (Decoding(SWAP) \/ Decoding(ADD) \/ Decoding(LOAD) => fsm' = "fetching")  ]_vars

\* C16 witness: the step-asserted cycle after the strobe cycle of the second
\* SWAP of the loop: the strobe is low again and a = 2, b = 1 were exchanged
\* once.
C16_Witness ==
    /\ do_swap = 0 /\ step = 1 /\ fsm = "fetching" /\ pc = 10
    /\ a = Word32(1) /\ b = Word32(2) /\ nOut = 2


Defined == {JUMP, ADD, SWAP, LOAD, WFI, OUT}
Executed == (0 .. 4) \cup (8 .. 12)

\* C17: running the built-in program, inst[0:3] is always one of the six
\* defined opcodes, pc is always in 0..5 or 8..13, and an edge that latches
\* inst reads the word of an instruction address, never one of 5-7 or 13-15.
C17_NoReservedExecuted ==
    /\ Opcode(inst) \in Defined
    /\ pc \in (0 .. 5) \cup (8 .. 13)
    /\ (Fetching => rd_addr = pc /\ rd_addr \in Executed /\ dat_r = WordAt(MemReset, rd_addr))

\* C17 witness: the JUMP at address 12 was latched and pc stands on its
\* operand byte at 13, which the moving_pc bubble keeps from being fetched.
C17_Witness ==
    /\ pc = 13 /\ fsm = "decoding" /\ inst = JUMP /\ step = 0
    /\ rd_addr = 12 /\ nOut = 3


MinSpacing == 2 * Pow2(TimerWidth) + 2

\* C18: two cycles with the debouncer's out at 1 are at least
\* 2^(TimerWidth+1) + 2 cycles apart, whatever in_raw does; between two
\* pulses the FSM is not in wait_for_press with fewer cycles elapsed.
C18_PulseSpacing ==
    /\ (nPulse >= 2 => lastGap >= MinSpacing)
    /\ (nPulse >= 1 /\ db_out # 0 => gap = 0)
    /\ (nPulse >= 1 /\ db_fsm = "wait_for_press" => gap + 1 >= MinSpacing)

\* C18 witness: a second pulse exactly 2^(TimerWidth+1) + 2 cycles after the
\* first, the closest the button can bring them.
C18_Witness ==
    /\ nPulse = 2 /\ db_out = 1 /\ lastGap = MinSpacing /\ gap = 0
    /\ db_fsm = "debounce_press"


\* The FSM sits on a latched WFI
AtWfi == fsm = "decoding" /\ Opcode(inst) = WFI

\* C19: with the clock ticking forever, a set wake latch is eventually
\* consumed by a decoded WFI, a consumed wake is followed by a decoded OUT,
\* and the processor comes back to the WFI again and again, so the only state
\* it can stay in for ever is the WFI stall with no wake pending.
C19_WakeLeadsToOut ==
    /\ (wfi # 0 ~> Consume)
    /\ (Consume ~> Decoding(OUT))
    /\ []<>AtWfi

\* C19 witness: the OUT of the loop is decoded after the first wake was
\* consumed at the WFI.
C19_Witness ==
    /\ Decoding(OUT) /\ pc = 12 /\ nWake = 1 /\ nOut = 1 /\ wfi = 0
    /\ a = Word32(2) /\ b = Word32(1)

====
